---- MODULE Spec2Model ----
(***************************************************************************)
(* Model of the sailing-events extraction engine (SailingHTMLParser), the  *)
(* provider/service orchestration around it, the HTTP endpoint and the     *)
(* client script of the page (fetchEvents with its cache, the filters and  *)
(* the query parameters).                                                  *)
(*                                                                         *)
(* Text is modelled by TLA+ strings, read character by character with Len  *)
(* and SubSeq.  The Hebrew literals of the source are written in a fixed   *)
(* upper-case transliteration, one Latin letter per Hebrew letter, so that *)
(* the module is plain ASCII; Latin text of the documents is lower case,   *)
(* so the two alphabets never collide:                                     *)
(*    TRWM       'טרום'          TRWM_M3SY  'טרום מעשי'                      *)
(*    TLMYDYM    'תלמידים'       HPLGWT     'הפלגות'                         *)
(*    KLY_HSYYT  'כלי השייט'     SNYP       'סניף'       RCYP  'רציף'       *)
(*    the geresh of the day symbols is written '                          *)
(*                                                                         *)
(* A parsed document (JSDOM's tree) is the sequence of its elements in     *)
(* document order, each with its depth, tag, class list, own text and href *)
(* attribute; node 0 stands for the document itself and for null.          *)
(***************************************************************************)
EXTENDS Integers, Sequences, FiniteSets, TLC

VARIABLES
    html,      \* the markup handed to the operation under way
    pc,        \* position inside parseSailingEvents
    boxes,     \* the NodeList of candidate blocks
    idx,       \* forEach index into boxes
    events,    \* the events array being built
    ret,       \* the value returned by parseSailingEvents
    mpc,       \* position inside parseMetaData
    mItems,    \* the NodeList of list items
    mIdx,      \* forEach index into mItems
    meta,      \* the boat, branch and pier variables of parseMetaData
    markup,    \* the raw markup, as text
    valid,     \* what validateSailingContent returned: "none" before the call,
               \* then "true" or "false"
    log,       \* the calls of parseSailingEvents made so far: markup and result
    hpc,       \* position inside the request handler and what it calls
    req,       \* the request: method, and the provider query parameter
    provider,  \* the name of the provider the handler selected
    isString,  \* whether the transport's data is a string
    thrown,    \* the error thrown and not yet caught
    evts,      \* the events the provider returned
    body,      \* the response body
    status,    \* the response status
    cpc,       \* the page of the client: not loaded, loading, ready, failed
    search,    \* window.location.search
    branchBoxes,    \* the checkboxes of #branch-checkboxes: value, checked
    categoryBoxes,  \* the checkboxes of #category-checkboxes: value, checked
    sailorEvents,   \* window._sailorEvents
    shown,     \* the event cards in #events-container, in display order
    cache,     \* the cache object of the client: data, timestamp
    now,       \* Date.now()
    fpc,       \* position inside fetchEvents
    fret,      \* how the last call of fetchEvents ended and with what
    requests,  \* the number of requests fetch has sent
    lastOk     \* the events of the most recent response fetchEvents accepted

parserVars == <<html, pc, boxes, idx, events, ret>>
metaVars == <<mpc, mItems, mIdx, meta>>
validVars == <<markup, valid>>
callerVars == <<log>>
httpVars == <<hpc, req, provider, isString, thrown, evts, body, status>>
pageVars == <<cpc, search, branchBoxes, categoryBoxes, sailorEvents, shown>>
fetchVars == <<cache, now, fpc, fret, requests, lastOk>>
clientVars == <<pageVars, fetchVars>>

(***************************************************************************)
(* Strings                                                                 *)
(***************************************************************************)
Char(s, i) == IF i >= 1 /\ i <= Len(s) THEN SubSeq(s, i, i) ELSE ""

IsWs(c) == c \in {" ", "\n", "\t"}

IsDigit(c) == c \in {"0", "1", "2", "3", "4", "5", "6", "7", "8", "9"}

\* String.prototype.trim
trim(s) ==
    LET keep == {i \in 1..Len(s) : ~IsWs(Char(s, i))}
    IN  IF keep = {} THEN ""
        ELSE LET lo == CHOOSE i \in keep : \A j \in keep : i <= j
                 hi == CHOOSE i \in keep : \A j \in keep : j <= i
             IN  SubSeq(s, lo, hi)

\* String.prototype.includes
includes(s, t) ==
    \E i \in 1..(Len(s) - Len(t) + 1) : SubSeq(s, i, i + Len(t) - 1) = t

RECURSIVE CollapseFrom(_, _)
CollapseFrom(s, i) ==
    IF i > Len(s) THEN ""
    ELSE IF IsWs(Char(s, i))
         THEN (IF i > 1 /\ IsWs(Char(s, i - 1)) THEN "" ELSE " ")
              \o CollapseFrom(s, i + 1)
         ELSE Char(s, i) \o CollapseFrom(s, i + 1)

\* text.replace(/\s+/g, ' ')
collapseWs(s) == CollapseFrom(s, 1)

(***************************************************************************)
(* The document tree and the selector queries of the DOM                   *)
(***************************************************************************)
Elem(tag, cls, text, depth) ==
    [tag |-> tag, cls |-> cls, text |-> text, href |-> "", depth |-> depth]

Link(cls, href, depth) ==
    [tag |-> "a", cls |-> cls, text |-> "", href |-> href, depth |-> depth]

\* the elements below node n (n = 0: the whole document)
Descendants(doc, n) ==
    IF n = 0 THEN 1..Len(doc)
    ELSE {m \in (n + 1)..Len(doc) :
            \A j \in (n + 1)..m : doc[j].depth > doc[n].depth}

Ancestors(doc, n) == {a \in 1..(n - 1) : n \in Descendants(doc, a)}

ClassSet(node) == {node.cls[i] : i \in 1..Len(node.cls)}

\* a compound selector: tag ("" for any), required classes, :not() classes
Compound(tag, cls, nots) == [tag |-> tag, cls |-> cls, nots |-> nots]

MatchesCompound(node, c) ==
    /\ c.tag = "" \/ node.tag = c.tag
    /\ c.cls \subseteq ClassSet(node)
    /\ c.nots \cap ClassSet(node) = {}

\* a complex selector: compounds joined by the descendant combinator
RECURSIVE MatchesComplex(_, _, _)
MatchesComplex(doc, n, cx) ==
    /\ MatchesCompound(doc[n], cx[Len(cx)])
    /\ \/ Len(cx) = 1
       \/ \E a \in Ancestors(doc, n) :
            MatchesComplex(doc, a, SubSeq(cx, 1, Len(cx) - 1))

\* a selector list: a set of complex selectors
Matches(doc, n, sel) == \E cx \in sel : MatchesComplex(doc, n, cx)

RECURSIVE Ascending(_)
Ascending(S) ==
    IF S = {} THEN <<>>
    ELSE LET m == CHOOSE x \in S : \A y \in S : x <= y
         IN  <<m>> \o Ascending(S \ {m})

\* scope.querySelectorAll(sel): the matches below scope, in document order
querySelectorAll(doc, scope, sel) ==
    Ascending({n \in Descendants(doc, scope) : Matches(doc, n, sel)})

\* scope.querySelector(sel): the first match, or null (0)
querySelector(doc, scope, sel) ==
    LET found == querySelectorAll(doc, scope, sel)
    IN  IF found = <<>> THEN 0 ELSE found[1]

RECURSIVE TextFrom(_, _, _)
TextFrom(doc, n, last) ==
    IF n > last THEN "" ELSE doc[n].text \o TextFrom(doc, n + 1, last)

\* node.textContent: the text of the node and of its descendants, in order
textContent(doc, n) ==
    LET below == Descendants(doc, n)
        last  == IF below = {} THEN n
                 ELSE CHOOSE m \in below : \A j \in below : j <= m
    IN  TextFrom(doc, n, last)

(***************************************************************************)
(* The selectors of the source                                             *)
(***************************************************************************)
BoxSelector ==
    { <<Compound("", {"single-yachts-box-sails"}, {}),
        Compound("", {"yachts-box"}, {})>>,
      <<Compound("", {"siingle-yachts-box", "single-yachts-box-sails"}, {})>> }

Sel(tag, cls) == { <<Compound(tag, cls, {})>> }

ValueSpanSelector ==
    { <<Compound("span", {},
                 {"messages", "flaticon-boat-1", "flaticon-boat-2",
                  "flaticon-boat-3"})>> }

(***************************************************************************)
(* parseDateTime                                                           *)
(***************************************************************************)
DigitsAt(s, i, n) == \A k \in 0..(n - 1) : IsDigit(Char(s, i + k))

\* \d{2}\/\d{2}\/\d{4} at position i
DateAt(s, i) ==
    /\ DigitsAt(s, i, 2) /\ Char(s, i + 2) = "/"
    /\ DigitsAt(s, i + 3, 2) /\ Char(s, i + 5) = "/"
    /\ DigitsAt(s, i + 6, 4)

\* \d{2}:\d{2} at position i
TimeAt(s, i) ==
    DigitsAt(s, i, 2) /\ Char(s, i + 2) = ":" /\ DigitsAt(s, i + 3, 2)

\* the end of the whitespace run at position i: every \s+ and \s* of the
\* pattern is followed by a token that is no whitespace, so a match takes
\* the whole run
RECURSIVE SkipWs(_, _)
SkipWs(s, i) == IF IsWs(Char(s, i)) THEN SkipWs(s, i + 1) ELSE i

\* the pattern /(\d{2}\/\d{2}\/\d{4})\s+(\d{2}:\d{2})\s*-\s*(\d{2}:\d{2})/
\* matched with its first character at position i
MatchAt(s, i) ==
    LET t1 == SkipWs(s, i + 10)
        hy == SkipWs(s, t1 + 5)
        t2 == SkipWs(s, hy + 1)
    IN  /\ DateAt(s, i)
        /\ t1 > i + 10
        /\ TimeAt(s, t1)
        /\ Char(s, hy) = "-"
        /\ TimeAt(s, t2)

NoMatch == [dateStr |-> "", startTime |-> "", endTime |-> ""]

\* reMatch with the pattern anchored (^...$): the whole text must match
reMatchAnchored(s) ==
    LET t1 == SkipWs(s, 11)
        t2 == SkipWs(s, SkipWs(s, t1 + 5) + 1)
    IN  IF MatchAt(s, 1) /\ t2 + 4 = Len(s)
        THEN [dateStr   |-> SubSeq(s, 1, 10),
              startTime |-> SubSeq(s, t1, t1 + 4),
              endTime   |-> SubSeq(s, t2, t2 + 4)]
        ELSE NoMatch

\* text.match(re): the groups of the leftmost match, or NoMatch for null
reMatch(s) ==
    LET at == {i \in 1..Len(s) : MatchAt(s, i)}
    IN  IF at = {} THEN NoMatch
        ELSE LET i  == CHOOSE x \in at : \A y \in at : x <= y
                 t1 == SkipWs(s, i + 10)
                 t2 == SkipWs(s, SkipWs(s, t1 + 5) + 1)
             IN  [dateStr   |-> SubSeq(s, i, i + 9),
                  startTime |-> SubSeq(s, t1, t1 + 4),
                  endTime   |-> SubSeq(s, t2, t2 + 4)]

DateLabelText(doc, label) == collapseWs(trim(textContent(doc, label)))

parseDateTime(doc, box) ==
    LET dateLabel == querySelector(doc, box, Sel("", {"sail-time-date-label"}))
    IN  IF dateLabel = 0 THEN NoMatch
        ELSE reMatch(DateLabelText(doc, dateLabel))

(***************************************************************************)
(* computeDayOfWeek                                                        *)
(***************************************************************************)
hebrewDays == <<"A'", "B'", "G'", "D'", "H'", "W'", "S'">>

DigitVal(c) ==
    CASE c = "0" -> 0 [] c = "1" -> 1 [] c = "2" -> 2 [] c = "3" -> 3
      [] c = "4" -> 4 [] c = "5" -> 5 [] c = "6" -> 6 [] c = "7" -> 7
      [] c = "8" -> 8 [] c = "9" -> 9

RECURSIVE DigitsValue(_, _)
DigitsValue(s, n) ==
    IF n = 0 THEN 0 ELSE 10 * DigitsValue(s, n - 1) + DigitVal(Char(s, n))

\* parseInt of a string of decimal digits
parseInt(s) == DigitsValue(s, Len(s))

\* dateStr.split('/'): the pieces between the slashes
RECURSIVE SplitFrom(_, _, _)
SplitFrom(s, start, i) ==
    IF i > Len(s) THEN <<SubSeq(s, start, Len(s))>>
    ELSE IF Char(s, i) = "/"
         THEN <<SubSeq(s, start, i - 1)>> \o SplitFrom(s, i + 1, i + 1)
         ELSE SplitFrom(s, start, i + 1)

split(s) == SplitFrom(s, 1, 1)

\* ECMAScript DayFromYear
DayFromYear(y) ==
    365 * (y - 1970) + ((y - 1969) \div 4) - ((y - 1901) \div 100)
        + ((y - 1601) \div 400)

InLeapYear(y) == (y % 4 = 0) /\ ((y % 100 # 0) \/ (y % 400 = 0))

DaysBeforeMonth(y, mn) ==
    LET len == <<31, IF InLeapYear(y) THEN 29 ELSE 28, 31, 30, 31, 30,
                 31, 31, 30, 31, 30, 31>>
        Sum[k \in 0..12] == IF k = 0 THEN 0 ELSE Sum[k - 1] + len[k]
    IN  Sum[mn]

\* ECMAScript MakeDay: month is 0-based and may lie outside 0..11, date may
\* lie outside the month; both roll over
MakeDay(year, month, date) ==
    LET ym == year + (month \div 12)
        mn == month % 12
    IN  DayFromYear(ym) + DaysBeforeMonth(ym, mn) + date - 1

\* new Date(y, m, d): a year of 0..99 stands for 1900 + year
DateYear(y) == IF y >= 0 /\ y <= 99 THEN 1900 + y ELSE y

\* new Date(y, m, d).getDay(): the date is built and read in local time, so
\* the weekday is that of the local calendar day (day 0 was a Thursday)
getDay(y, m, d) == (MakeDay(DateYear(y), m, d) + 4) % 7

computeDayOfWeek(dateStr) ==
    IF dateStr = "" THEN ""
    ELSE LET p == split(dateStr)
             dayIndex == getDay(parseInt(p[3]), parseInt(p[2]) - 1,
                                parseInt(p[1]))
         IN  hebrewDays[dayIndex + 1]

(***************************************************************************)
(* parseMetaData                                                           *)
(***************************************************************************)
KLY_HSYYT == "KLY HSYYT"
SNYP == "SNYP"
RCYP == "RCYP"

NoMeta == [boat |-> "", branch |-> "", pier |-> ""]

ItemLabel(doc, li) ==
    LET labelSpan == querySelector(doc, li, Sel("span", {"messages"}))
    IN  IF labelSpan = 0 THEN "" ELSE trim(textContent(doc, labelSpan))

ItemValue(doc, li) ==
    LET valueSpan == querySelector(doc, li, ValueSpanSelector)
    IN  IF valueSpan = 0 THEN "" ELSE trim(textContent(doc, valueSpan))

\* MetaStep with the test of RCYP moved before the test of SNYP
MetaStepPierFirst(acc, label, value) ==
    IF includes(label, KLY_HSYYT) THEN [acc EXCEPT !.boat = value]
    ELSE IF includes(label, RCYP) THEN [acc EXCEPT !.pier = value]
    ELSE IF includes(label, SNYP) THEN [acc EXCEPT !.branch = value]
    ELSE acc

\* the body of the forEach callback: one list item applied to the fields
MetaStep(acc, label, value) ==
    IF includes(label, KLY_HSYYT) THEN [acc EXCEPT !.boat = value]
    ELSE IF includes(label, SNYP) THEN [acc EXCEPT !.branch = value]
    ELSE IF includes(label, RCYP) THEN [acc EXCEPT !.pier = value]
    ELSE acc

MetaItems(doc, box) ==
    LET metaList == querySelector(doc, box, Sel("ul", {"meta-list-sail"}))
    IN  IF metaList = 0 THEN <<>>
        ELSE querySelectorAll(doc, metaList, Sel("li", {"main-items"}))

RECURSIVE MetaFold(_, _, _)
MetaFold(doc, items, k) ==
    IF k = 0 THEN NoMeta
    ELSE MetaStep(MetaFold(doc, items, k - 1),
                  ItemLabel(doc, items[k]), ItemValue(doc, items[k]))

parseMetaData(doc, box) ==
    LET items == MetaItems(doc, box) IN MetaFold(doc, items, Len(items))

(***************************************************************************)
(* parseEventBox                                                           *)
(***************************************************************************)
TRWM == "TRWM"
TRWM_M3SY == "TRWM M3SY"
TLMYDYM == "TLMYDYM"

\* JavaScript's undefined
undefined == "<undefined>"

\* TextOf with optional chaining (el?.textContent.trim()) in place of the
\* conditional: undefined without a match
TextOfOptional(doc, box, sel) ==
    LET el == querySelector(doc, box, sel)
    IN  IF el = 0 THEN undefined ELSE trim(textContent(doc, el))

\* the trimmed text of the first match of sel below box, '' without one
TextOf(doc, box, sel) ==
    LET el == querySelector(doc, box, sel)
    IN  IF el = 0 THEN "" ELSE trim(textContent(doc, el))

\* the href of the first match of sel below box, '' without one
HrefOf(doc, box, sel) ==
    LET el == querySelector(doc, box, sel)
    IN  IF el = 0 THEN "" ELSE doc[el].href

\* eventTypeOf with a test of the start of the title for the substring test
eventTypeStartsWith(title) ==
    IF Len(title) >= Len(TRWM) /\ SubSeq(title, 1, Len(TRWM)) = TRWM
    THEN TRWM_M3SY ELSE TLMYDYM

\* line 139
eventTypeOf(title) == IF includes(title, TRWM) THEN TRWM_M3SY ELSE TLMYDYM

parseEventBox(doc, box) ==
    LET title == TextOf(doc, box, Sel("h2", {}))
        dt    == parseDateTime(doc, box)
        md    == parseMetaData(doc, box)
    IN  [title       |-> title,
         date        |-> dt.dateStr,
         startTime   |-> dt.startTime,
         endTime     |-> dt.endTime,
         dayOfWeek   |-> computeDayOfWeek(dt.dateStr),
         description |-> TextOf(doc, box, Sel("span", {"text-truncate"})),
         boat        |-> md.boat,
         branch      |-> md.branch,
         pier        |-> md.pier,
         eventType   |-> eventTypeOf(title),
         moreUrl     |-> HrefOf(doc, box, Sel("a", {"btn-more-detail"})),
         orderUrl    |-> HrefOf(doc, box, Sel("a", {"btn-cart"})),
         price       |-> TextOf(doc, box, Sel("", {"sail-price"}))]

(***************************************************************************)
(* parseSailingEvents                                                      *)
(***************************************************************************)
\* ParseStart with events kept from call to call (an array of the class in
\* place of the local of line 90)
ParseStartSharedEvents ==
    /\ pc = "call"
    /\ boxes' = querySelectorAll(html, 0, BoxSelector)
    /\ events' = events
    /\ IF boxes' = <<>>
       THEN pc' = "returned" /\ ret' = <<>> /\ idx' = 0
       ELSE pc' = "forEach" /\ ret' = ret /\ idx' = 1
    /\ UNCHANGED <<html, metaVars, validVars, callerVars, clientVars, httpVars>>

\* lines 88-98: parse, select the candidate blocks, return [] without any
ParseStart ==
    /\ pc = "call"
    /\ boxes' = querySelectorAll(html, 0, BoxSelector)
    /\ events' = <<>>
    /\ IF boxes' = <<>>
       THEN pc' = "returned" /\ ret' = <<>> /\ idx' = 0
       ELSE pc' = "forEach" /\ ret' = ret /\ idx' = 1
    /\ UNCHANGED <<html, metaVars, validVars, callerVars, clientVars, httpVars>>

\* ParseBox without the test of event.title
ParseBoxKeepAll ==
    /\ pc = "forEach"
    /\ idx <= Len(boxes)
    /\ events' = Append(events, parseEventBox(html, boxes[idx]))
    /\ idx' = idx + 1
    /\ UNCHANGED <<html, pc, boxes, ret, metaVars, validVars, callerVars, clientVars, httpVars>>

\* ParseBox with unshift in place of push
ParseBoxUnshift ==
    /\ pc = "forEach"
    /\ idx <= Len(boxes)
    /\ LET event == parseEventBox(html, boxes[idx])
       IN  events' = IF event.title # "" THEN <<event>> \o events
                     ELSE events
    /\ idx' = idx + 1
    /\ UNCHANGED <<html, pc, boxes, ret, metaVars, validVars, callerVars, clientVars, httpVars>>

\* lines 100-107: one turn of the forEach callback
ParseBox ==
    /\ pc = "forEach"
    /\ idx <= Len(boxes)
    /\ LET event == parseEventBox(html, boxes[idx])
       IN  events' = IF event.title # "" THEN Append(events, event)
                     ELSE events
    /\ idx' = idx + 1
    /\ UNCHANGED <<html, pc, boxes, ret, metaVars, validVars, callerVars, clientVars, httpVars>>

\* line 109
ParseReturn ==
    /\ pc = "forEach"
    /\ idx > Len(boxes)
    /\ pc' = "returned"
    /\ ret' = events
    /\ UNCHANGED <<html, boxes, idx, events, metaVars, validVars, callerVars, clientVars, httpVars>>

NextParse == ParseStart \/ ParseBox \/ ParseReturn

\* the locals of a call of parseSailingEvents that has not begun
ParserLocals == boxes = <<>> /\ idx = 0 /\ events = <<>> /\ ret = <<>>

MetaIdle == mpc = "idle" /\ mItems = <<>> /\ mIdx = 0 /\ meta = NoMeta

ValidIdle == markup = "" /\ valid = "none"

CallerIdle == log = <<>>

NoRequest == [method |-> "", hasQuery |-> FALSE, provider |-> ""]

NoError == [message |-> "", hasResponse |-> FALSE, status |-> "", data |-> ""]

NoBody == [ended |-> TRUE]

\* no request is being handled
HttpLocals ==
    /\ provider = "" /\ isString = TRUE /\ thrown = NoError /\ evts = <<>>
    /\ body = NoBody /\ status = 0

HttpIdle == hpc = "idle" /\ req = NoRequest /\ HttpLocals

\* null, and a list, where a value is one or the other
JsNull == [null |-> TRUE]

Data(list) == [null |-> FALSE, list |-> list]

NoResult == [how |-> "none", value |-> <<>>]

\* fetchEvents has not run: the cache as the script creates it (lines 13-17);
\* a null timestamp is written 0, which no clock reading is
FetchLocals ==
    /\ cache = [data |-> JsNull, timestamp |-> 0]
    /\ fpc = "idle" /\ fret = NoResult /\ requests = 0 /\ lastOk = <<>>

\* the page before the script has run
PageLocals ==
    /\ branchBoxes = <<>> /\ categoryBoxes = <<>>
    /\ sailorEvents = <<>> /\ shown = <<>>

ClientIdle == cpc = "idle" /\ search = "" /\ PageLocals /\ now = 0 /\ FetchLocals

\* a call of parseSailingEvents(html) is about to begin and nothing else runs
ParserIdle ==
    pc = "call" /\ ParserLocals /\ MetaIdle /\ ValidIdle /\ CallerIdle /\ HttpIdle /\ ClientIdle

(***************************************************************************)
(* validateSailingContent                                                  *)
(***************************************************************************)
HPLGWT == "HPLGWT"

\* validateSailingContent without the test of 'sailing'
validateWithoutSailing(t) ==
    \/ includes(t, "single-yachts-box-sails")
    \/ includes(t, "yachts-box")
    \/ includes(t, "siingle-yachts-box")
    \/ includes(t, HPLGWT)

\* lines 244-253
validateSailingContent(t) ==
    \/ includes(t, "single-yachts-box-sails")
    \/ includes(t, "yachts-box")
    \/ includes(t, "siingle-yachts-box")
    \/ includes(t, HPLGWT)
    \/ includes(t, "sailing")

Validate ==
    /\ valid = "none"
    /\ valid' = IF validateSailingContent(markup) THEN "true" ELSE "false"
    /\ UNCHANGED <<parserVars, metaVars, markup, callerVars, clientVars, httpVars>>

(***************************************************************************)
(* parseMetaData, turn by turn, on the first candidate block of html       *)
(***************************************************************************)
FirstBox == querySelector(html, 0, BoxSelector)

\* lines 196-202
MetaStart ==
    /\ mpc = "call"
    /\ meta' = NoMeta
    /\ mItems' = MetaItems(html, FirstBox)
    /\ mIdx' = 1
    /\ mpc' = "forEach"
    /\ UNCHANGED <<parserVars, validVars, callerVars, clientVars, httpVars>>

\* lines 202-217: one turn of the forEach callback
MetaItem ==
    /\ mpc = "forEach"
    /\ mIdx <= Len(mItems)
    /\ meta' = MetaStep(meta, ItemLabel(html, mItems[mIdx]),
                        ItemValue(html, mItems[mIdx]))
    /\ mIdx' = mIdx + 1
    /\ UNCHANGED <<parserVars, mpc, mItems, validVars, callerVars, clientVars, httpVars>>

\* line 220
MetaReturn ==
    /\ mpc = "forEach"
    /\ mIdx > Len(mItems)
    /\ mpc' = "returned"
    /\ UNCHANGED <<parserVars, mItems, mIdx, meta, validVars, callerVars, clientVars, httpVars>>

NextMeta == MetaStart \/ MetaItem \/ MetaReturn

(***************************************************************************)
(* Input documents: every forest of at most MaxNodes elements drawn from   *)
(* the block wrappers and headings below (a heading holds text only)       *)
(***************************************************************************)
MaxNodes == 4

Kind(tag, cls, text) == [tag |-> tag, cls |-> cls, text |-> text]

StructKinds ==
    { Kind("div", <<"single-yachts-box-sails">>, ""),
      Kind("div", <<"yachts-box">>, ""),
      Kind("div", <<"siingle-yachts-box", "single-yachts-box-sails">>, ""),
      Kind("h2", <<>>, "a"),
      Kind("h2", <<>>, " \n"),
      Kind("h2", <<>>, "\n TRWM b ") }

\* the depth sequences of the forests of n elements in document order
RECURSIVE Shapes(_)
Shapes(n) ==
    IF n = 0 THEN {<<>>}
    ELSE UNION { { Append(sh, dep) :
                     dep \in 0..(IF sh = <<>> THEN 0 ELSE sh[Len(sh)] + 1) } :
                 sh \in Shapes(n - 1) }

\* a heading holds no element
LeafHeadings(ks, sh) ==
    \A i \in 1..(Len(sh) - 1) : ks[i].tag = "h2" => sh[i + 1] <= sh[i]

Forest(ks, sh) ==
    [i \in 1..Len(sh) |-> Elem(ks[i].tag, ks[i].cls, ks[i].text, sh[i])]

IsStructDoc(d) ==
    \E n \in 0..MaxNodes : \E sh \in Shapes(n) : \E ks \in [1..n -> StructKinds] :
        LeafHeadings(ks, sh) /\ d = Forest(ks, sh)

Init == IsStructDoc(html) /\ ParserIdle

Next == NextParse

vars == <<parserVars, metaVars, validVars, callerVars, httpVars, clientVars>>

Spec == Init /\ [][Next]_vars

(***************************************************************************)
(* Input documents for the field extraction: a block under the primary     *)
(* pattern in which each field's element is present or absent, alone or    *)
(* after a fully populated block                                           *)
(***************************************************************************)
Wrapper == Elem("div", <<"single-yachts-box-sails">>, "", 0)

Item(label, value) ==
    << Elem("li", <<"main-items">>, "", 3),
       Elem("div", <<"d-flex">>, "", 4),
       Elem("span", <<"flaticon-boat-1">>, "", 5),
       Elem("span", <<"messages">>, label, 5),
       Elem("span", <<>>, value, 4) >>

MetaList(items) == <<Elem("ul", <<"meta-list-sail">>, "", 2)>> \o items

StdMeta ==
    MetaList(Item(" KLY HSYYT: ", " yacht 1 ") \o Item("SNYP:", "hrzlyh\n")
             \o Item("RCYP:", "d"))

Opt(present, nodes) == IF present THEN nodes ELSE <<>>

FieldNames == {"h2", "label", "desc", "meta", "more", "cart", "price"}

\* one block: div.yachts-box with the elements that on says are present
Block(on, title, label) ==
    <<Elem("div", <<"yachts-box">>, "", 1)>>
    \o Opt(on["h2"], <<Elem("h2", <<>>, title, 2)>>)
    \o Opt(on["label"], <<Elem("div", <<"sail-time-date-label">>, label, 2)>>)
    \o Opt(on["desc"], <<Elem("span", <<"text-truncate">>, " first sail\n", 2)>>)
    \o Opt(on["meta"], StdMeta)
    \o Opt(on["more"], <<Link(<<"btn-more-detail">>, "https://sailor.co.il/sail/1", 2)>>)
    \o Opt(on["cart"], <<Link(<<"btn-cart">>, "https://sailor.co.il/cart/1", 2)>>)
    \o Opt(on["price"], <<Elem("div", <<"sail-price">>, " 350 ", 2)>>)

AllOn == [f \in FieldNames |-> TRUE]

TitleTexts == {"a", " TRWM M3SY 1\n", "TRW M", "hplgt TRWM"}

FullBlock == Block(AllOn, "hplgt TRWM", "27/10/2025 14:00 - 16:00")

IsFieldDoc(d) ==
    \E on \in [FieldNames -> BOOLEAN] : \E title \in TitleTexts :
      \E first \in BOOLEAN :
        /\ ~on["h2"] => title = "a"
        /\ d = <<Wrapper>> \o Opt(first, FullBlock)
                 \o Block(on, title, " 03/11/2025\n 09:00-11:30 ")

InitFields == IsFieldDoc(html) /\ ParserIdle

SpecFields == InitFields /\ [][Next]_vars

(***************************************************************************)
(* Input documents for the date label: one titled block whose label text   *)
(* is a prefix, a date, a time range and a suffix, each drawn from         *)
(* conforming and non-conforming pieces, held by the label alone or split  *)
(* between the label and a span inside it; or a conforming label whose     *)
(* date runs over day, month and year numbers; or no label                 *)
(***************************************************************************)
MaxDay == 32
MaxMonth == 13

Digit(n) == SubSeq("0123456789", n + 1, n + 1)
Pad2(n) == Digit(n \div 10) \o Digit(n % 10)
Pad4(n) == Pad2(n \div 100) \o Pad2(n % 100)

Years == {0, 1, 4, 99, 100, 400, 1600, 1900, 1970, 2000, 2024, 2025, 2100, 9999}

CalendarTexts ==
    { Pad2(d) \o "/" \o Pad2(m) \o "/" \o Pad4(y) \o " 10:00 - 12:00" :
        d \in 0..MaxDay \cup {99}, m \in 0..MaxMonth \cup {99}, y \in Years }

LabelBlock(own, inner) ==
    << Wrapper, Elem("div", <<"yachts-box">>, "", 1), Elem("h2", <<>>, "a", 2),
       Elem("div", <<"sail-time-date-label">>, own, 2) >>
    \o Opt(inner # "", <<Elem("span", <<>>, inner, 3)>>)

IsDateDoc(d) ==
    \/ d = <<Wrapper, Elem("div", <<"yachts-box">>, "", 1), Elem("h2", <<>>, "a", 2)>>
    \/ \E t \in CalendarTexts : d = LabelBlock(t, "")
    \/ \E pre \in {"", "\n ", "x", "1"} :
       \E date \in {"27/10/2025", "7/10/2025", "27.10.2025"} :
       \E ws1 \in {"", " ", "  ", "\n\t"} :
       \E t1 \in {"14:00", "9:30"} :
       \E ws2 \in {"", " "} :
       \E sep \in {"-", "to"} :
       \E ws3 \in {"", "\n"} :
       \E t2 \in {"16:00", "16:0"} :
       \E post \in {"", " \n", "0"} :
       \E inside \in BOOLEAN :
         LET head == pre \o date \o ws1
             tail == t1 \o ws2 \o sep \o ws3 \o t2 \o post
         IN  d = IF inside THEN LabelBlock(head, tail)
                  ELSE LabelBlock(head \o tail, "")

InitDate == IsDateDoc(html) /\ ParserIdle

SpecDate == InitDate /\ [][Next]_vars

(***************************************************************************)
(* Input documents for the metadata list: one titled block whose list has  *)
(* at most MaxItems items, each with one of the labels below or without a  *)
(* label span, and with a value span telling its position                  *)
(***************************************************************************)
MaxItems == 3

ItemLabels ==
    { " KLY HSYYT: ", "SNYP:", "RCYP", "SNYP KLY HSYYT", "SNYP/RCYP", "mhyr", "none" }

ItemValues == <<" v1 ", "v2\n", "v3", "v4", "v5">>

\* a list item without a label span
BareItem(value) ==
    << Elem("li", <<"main-items">>, "", 3), Elem("span", <<>>, value, 4) >>

RECURSIVE ItemsOf(_, _)
ItemsOf(labels, k) ==
    IF k = 0 THEN <<>>
    ELSE ItemsOf(labels, k - 1)
         \o (IF labels[k] = "none" THEN BareItem(ItemValues[k])
             ELSE Item(labels[k], ItemValues[k]))

IsMetaDoc(d) ==
    \E n \in 0..MaxItems : \E labels \in [1..n -> ItemLabels] :
        d = << Wrapper, Elem("div", <<"yachts-box">>, "", 1),
               Elem("h2", <<>>, "a", 2) >>
            \o MetaList(ItemsOf(labels, n))

InitMeta ==
    /\ IsMetaDoc(html)
    /\ pc = "idle" /\ ParserLocals
    /\ mpc = "call" /\ mItems = <<>> /\ mIdx = 0 /\ meta = NoMeta
    /\ ValidIdle /\ CallerIdle /\ HttpIdle /\ ClientIdle

SpecMeta == InitMeta /\ [][NextMeta]_vars

(***************************************************************************)
(* Input texts for the validator: at most MaxFrags pieces in a row, the    *)
(* pieces being the markers, parts of markers and other markup             *)
(***************************************************************************)
MaxFrags == 3

Frags ==
    { "single-yachts-box-sails", "siingle-yachts-box", "yachts-box", "HPLGWT",
      "sailing", "single-", "yachts-", "box", "sail", "ing", "HPLG", "WT",
      "<div class=\"", "\">\n" }

RECURSIVE Joined(_, _)
Joined(fs, k) == IF k = 0 THEN "" ELSE Joined(fs, k - 1) \o fs[k]

IsRawText(t) ==
    \E n \in 0..MaxFrags : \E fs \in [1..n -> Frags] : t = Joined(fs, n)

InitValidate ==
    /\ IsRawText(markup) /\ valid = "none"
    /\ html = <<>> /\ pc = "idle" /\ ParserLocals /\ MetaIdle
    /\ CallerIdle /\ HttpIdle /\ ClientIdle

NextValidate == Validate

SpecValidate == InitValidate /\ [][NextValidate]_vars

(***************************************************************************)
(* Repeated calls: a caller (a provider, once per request) calls           *)
(* parseSailingEvents MaxCalls times, each time on any of the documents    *)
(* below                                                                   *)
(***************************************************************************)
MaxCalls == 3

TitleOnly == [f \in FieldNames |-> f = "h2"]

RepeatDocs ==
    { <<>>,
      <<Wrapper>> \o FullBlock,
      <<Wrapper>> \o FullBlock \o Block(TitleOnly, " TRWM M3SY 1\n", ""),
      << Elem("div", <<"siingle-yachts-box", "single-yachts-box-sails">>, "", 0),
         Elem("div", <<"yachts-box">>, "", 1), Elem("h2", <<>>, "a", 2) >> }

\* the caller takes the result and calls again
CallAgain ==
    /\ pc = "returned"
    /\ Len(log) < MaxCalls
    /\ log' = Append(log, [doc |-> html, out |-> ret])
    /\ IF Len(log') < MaxCalls
       THEN pc' = "call" /\ html' \in RepeatDocs
       ELSE pc' = "idle" /\ html' = html
    /\ UNCHANGED <<boxes, idx, events, ret, metaVars, validVars, httpVars,
                   clientVars>>

InitRepeat == html \in RepeatDocs /\ ParserIdle

NextRepeat == NextParse \/ CallAgain

SpecRepeat == InitRepeat /\ [][NextRepeat]_vars

(***************************************************************************)
(* Markup text.  The transport hands over text and JSDOM parses it; the    *)
(* text of a document is written out here, and JSDOM is its inverse on the *)
(* documents the transport can deliver.                                    *)
(***************************************************************************)
RECURSIVE JoinClasses(_, _)
JoinClasses(cls, k) ==
    IF k = 0 THEN ""
    ELSE JoinClasses(cls, k - 1) \o (IF k > 1 THEN " " ELSE "") \o cls[k]

OpenTag(node) ==
    "<" \o node.tag
    \o (IF node.cls = <<>> THEN ""
        ELSE " class=\"" \o JoinClasses(node.cls, Len(node.cls)) \o "\"")
    \o (IF node.href = "" THEN "" ELSE " href=\"" \o node.href \o "\"")
    \o ">" \o node.text

\* the end tags of the last k open elements
RECURSIVE CloseTags(_, _)
CloseTags(open, k) ==
    IF k = 0 THEN ""
    ELSE "</" \o open[Len(open)] \o ">"
         \o CloseTags(SubSeq(open, 1, Len(open) - 1), k - 1)

RECURSIVE SerializeFrom(_, _, _)
SerializeFrom(doc, i, open) ==
    IF i > Len(doc) THEN CloseTags(open, Len(open))
    ELSE LET k == Len(open) - doc[i].depth
         IN  CloseTags(open, k) \o OpenTag(doc[i])
             \o SerializeFrom(doc, i + 1,
                    Append(SubSeq(open, 1, doc[i].depth), doc[i].tag))

Serialize(doc) == SerializeFrom(doc, 1, <<>>)

\* the documents the static file or the remote site may hold
HttpDocs ==
    { <<>>,
      <<Elem("p", <<>>, "404 not found", 0)>>,
      <<Elem("div", <<>>, "sailing soon", 0)>>,
      <<Wrapper>> \o FullBlock,
      <<Wrapper>> \o FullBlock \o Block(TitleOnly, " TRWM M3SY 1\n", "") }

\* new JSDOM(html).window.document
JSDOM(t) == CHOOSE d \in HttpDocs : Serialize(d) = t

(***************************************************************************)
(* The HTTP endpoint, SailorService and the two providers                  *)
(***************************************************************************)
\* new Date().toISOString()
Timestamp == "2025-10-27T10:00:00.000Z"

TypeError(msg) == [message |-> msg, hasResponse |-> FALSE, status |-> "", data |-> ""]

\* the requests; the host fills req.query, and a request object without it
\* (the handler called by another host) is the one input that reaches the
\* handler's own catch
Requests ==
    [method : {"GET", "POST", "OPTIONS"}, hasQuery : {TRUE},
     provider : {"", "static", "scrapingbee", "other"}]
    \cup [method : {"GET"}, hasQuery : {FALSE}, provider : {""}]

\* handler lines 11-14: a preflight request is answered at once
HandleOptions ==
    /\ hpc = "request"
    /\ req.method = "OPTIONS"
    /\ status' = 200
    /\ body' = NoBody
    /\ hpc' = "responded"
    /\ UNCHANGED <<parserVars, metaVars, validVars, callerVars, clientVars, req, provider,
                   isString, thrown, evts>>

\* handler lines 16-31: the provider is chosen from req.query.provider
HandleSelect ==
    /\ hpc = "request"
    /\ req.method # "OPTIONS"
    /\ IF ~req.hasQuery
       THEN /\ thrown' = TypeError("Cannot read properties of undefined (reading 'provider')")
            /\ hpc' = "handlerCatch"
            /\ provider' = provider
       ELSE /\ provider' = IF req.provider = "scrapingbee" THEN "ScrapingBee"
                           ELSE "StaticHTML"
            /\ hpc' = "service"
            /\ thrown' = thrown
    /\ UNCHANGED <<parserVars, metaVars, validVars, callerVars, clientVars, req, isString,
                   evts, body, status>>

\* SailorService.getSailingEvents lines 32-44
ServiceCall ==
    /\ hpc = "service"
    /\ IF provider = ""
       THEN /\ body' = [success |-> FALSE, error |-> "No provider configured",
                        message |-> "Sailing data provider is not configured",
                        timestamp |-> Timestamp]
            /\ hpc' = "respond"
       ELSE body' = body /\ hpc' = "provider"
    /\ UNCHANGED <<parserVars, metaVars, validVars, callerVars, clientVars, req, provider,
                   isString, thrown, evts, status>>

\* StaticHTMLProvider.readHTMLFile: the file is read
ReadFileOk ==
    /\ hpc = "provider"
    /\ provider = "StaticHTML"
    /\ \E d \in HttpDocs : markup' = Serialize(d)
    /\ isString' = TRUE
    /\ hpc' = "validate"
    /\ UNCHANGED <<parserVars, metaVars, valid, callerVars, clientVars, req, provider,
                   thrown, evts, body, status>>

\* StaticHTMLProvider.readHTMLFile: the read fails, the error is wrapped, and
\* getSailingEvents throws it on
ReadFileFail ==
    /\ hpc = "provider"
    /\ provider = "StaticHTML"
    /\ thrown' = [message |-> "Failed to read HTML file: " \o "ENOENT: no such file or directory",
                  hasResponse |-> FALSE, status |-> "", data |-> ""]
    /\ hpc' = "serviceCatch"
    /\ UNCHANGED <<parserVars, metaVars, validVars, callerVars, clientVars, req, provider,
                   isString, evts, body, status>>

\* ScrapingBeeProvider.fetchSailingData: the request succeeds; response.data
\* is the markup, or an object when the reply was JSON
AxiosOk ==
    /\ hpc = "provider"
    /\ provider = "ScrapingBee"
    /\ \/ isString' = TRUE /\ \E d \in HttpDocs : markup' = Serialize(d)
       \/ isString' = FALSE /\ markup' = markup
    /\ hpc' = "validate"
    /\ UNCHANGED <<parserVars, metaVars, valid, callerVars, clientVars, req, provider,
                   thrown, evts, body, status>>

\* ScrapingBeeProvider.fetchSailingData: axios rejects, with the reply of the
\* service or without one, and getSailingEvents throws the error on
AxiosFail ==
    /\ hpc = "provider"
    /\ provider = "ScrapingBee"
    /\ thrown' \in
         { [message |-> "Request failed with status code 500", hasResponse |-> TRUE,
            status |-> "500", data |-> "{\"message\":\"quota\"}"],
           [message |-> "Network Error", hasResponse |-> FALSE,
            status |-> "", data |-> ""] }
    /\ hpc' = "serviceCatch"
    /\ UNCHANGED <<parserVars, metaVars, validVars, callerVars, clientVars, req, provider,
                   isString, evts, body, status>>

\* ProviderValidate that hands every text to parseSailingEvents, whatever
\* validateSailingContent said
ProviderValidateParsesAlways ==
    /\ hpc = "validate"
    /\ IF ~isString
       THEN /\ thrown' = TypeError("html.includes is not a function")
            /\ hpc' = "serviceCatch"
            /\ UNCHANGED <<html, pc, valid>>
       ELSE /\ valid' = IF validateSailingContent(markup) THEN "true" ELSE "false"
            /\ html' = JSDOM(markup)
            /\ pc' = "call"
            /\ hpc' = "parse"
            /\ thrown' = thrown
    /\ UNCHANGED <<boxes, idx, events, ret, metaVars, markup, callerVars, clientVars, req,
                   provider, isString, evts, body, status>>

\* getSailingEvents of either provider, after the markup has arrived:
\* validateSailingContent, then [] or the call of parseSailingEvents
ProviderValidate ==
    /\ hpc = "validate"
    /\ IF ~isString
       THEN /\ thrown' = TypeError("html.includes is not a function")
            /\ hpc' = "serviceCatch"
            /\ UNCHANGED <<html, pc, valid, evts>>
       ELSE /\ valid' = IF validateSailingContent(markup) THEN "true" ELSE "false"
            /\ IF valid' = "true"
               THEN /\ html' = JSDOM(markup)
                    /\ pc' = "call"
                    /\ hpc' = "parse"
                    /\ evts' = evts
               ELSE /\ evts' = <<>>
                    /\ hpc' = "serviceReturn"
                    /\ UNCHANGED <<html, pc>>
            /\ thrown' = thrown
    /\ UNCHANGED <<boxes, idx, events, ret, metaVars, markup, callerVars, clientVars, req,
                   provider, isString, body, status>>

\* getSailingEvents of either provider: parseSailingEvents has returned
ProviderReturn ==
    /\ hpc = "parse"
    /\ pc = "returned"
    /\ evts' = ret
    /\ pc' = "idle"
    /\ hpc' = "serviceReturn"
    /\ UNCHANGED <<html, boxes, idx, events, ret, metaVars, validVars, callerVars, clientVars,
                   req, provider, isString, thrown, body, status>>

\* SailorService.getSailingEvents lines 46-52
ServiceSuccess ==
    /\ hpc = "serviceReturn"
    /\ body' = [success |-> TRUE, events |-> evts, contentFound |-> Len(evts) > 0,
                provider |-> provider, timestamp |-> Timestamp]
    /\ hpc' = "respond"
    /\ UNCHANGED <<parserVars, metaVars, validVars, callerVars, clientVars, req, provider,
                   isString, thrown, evts, status>>

\* lines 57-60
errorDetails(error) ==
    IF error.hasResponse
    THEN "Status: " \o error.status \o ", Data: " \o error.data
    ELSE error.message

\* SailorService.getSailingEvents lines 54-69
ServiceCatch ==
    /\ hpc = "serviceCatch"
    /\ body' = [success |-> FALSE, error |-> errorDetails(thrown),
                message |-> "Failed to fetch sailing data from " \o provider,
                provider |-> provider, timestamp |-> Timestamp]
    /\ thrown' = NoError
    /\ hpc' = "respond"
    /\ UNCHANGED <<parserVars, metaVars, validVars, callerVars, clientVars, req, provider,
                   isString, evts, status>>

\* StatusOf with 200 for every result
StatusAlways200(result) == 200

\* handler line 36
StatusOf(result) == IF result.success THEN 200 ELSE 500

\* handler lines 34-37
Respond ==
    /\ hpc = "respond"
    /\ status' = StatusOf(body)
    /\ hpc' = "responded"
    /\ UNCHANGED <<parserVars, metaVars, validVars, callerVars, clientVars, req, provider,
                   isString, thrown, evts, body>>

\* handler lines 39-47
HandlerCatch ==
    /\ hpc = "handlerCatch"
    /\ status' = 500
    /\ body' = [success |-> FALSE, error |-> thrown.message,
                message |-> "Internal server error", timestamp |-> Timestamp]
    /\ thrown' = NoError
    /\ hpc' = "responded"
    /\ UNCHANGED <<parserVars, metaVars, validVars, callerVars, clientVars, req, provider,
                   isString, evts>>

InitHttp ==
    /\ req \in Requests
    /\ hpc = "request" /\ HttpLocals
    /\ html = <<>> /\ pc = "idle" /\ ParserLocals
    /\ MetaIdle /\ ValidIdle /\ CallerIdle /\ ClientIdle

NextHttp ==
    \/ HandleOptions \/ HandleSelect \/ ServiceCall
    \/ ReadFileOk \/ ReadFileFail \/ AxiosOk \/ AxiosFail
    \/ ProviderValidate \/ NextParse \/ ProviderReturn
    \/ ServiceSuccess \/ ServiceCatch \/ Respond \/ HandlerCatch

SpecHttp == InitHttp /\ [][NextHttp]_vars

(***************************************************************************)
(* The client: fetchEvents and its cache                                   *)
(***************************************************************************)
MaxNow == 1200000

MaxRequests == 3

\* cache.ttl, in milliseconds
ttl == 5 * 60 * 1000

\* an event as the client reads it from the reply
Event(title, branch, eventType) ==
    [title |-> title, branch |-> branch, eventType |-> eventType]

\* the event lists the endpoint may answer with
ServerEvents ==
    { <<>>,
      <<Event("s1", "haifa", TLMYDYM), Event("p1", "tel aviv", TRWM_M3SY),
        Event("s2", "tel aviv", TLMYDYM)>>,
      <<Event("s1", "a,b", TLMYDYM), Event("p1", "a", TRWM_M3SY),
        Event("s2", "", TLMYDYM)>> }

\* what fetch(vercelApiUrl) ends with: a rejection, or a response with its
\* ok flag and the JSON of its body
Replies ==
    { [rejects |-> TRUE, ok |-> FALSE, success |-> FALSE, hasEvents |-> FALSE,
       events |-> <<>>],
      [rejects |-> FALSE, ok |-> FALSE, success |-> FALSE, hasEvents |-> FALSE,
       events |-> <<>>],
      [rejects |-> FALSE, ok |-> TRUE, success |-> FALSE, hasEvents |-> FALSE,
       events |-> <<>>],
      [rejects |-> FALSE, ok |-> TRUE, success |-> TRUE, hasEvents |-> FALSE,
       events |-> <<>>] }
    \cup { [rejects |-> FALSE, ok |-> TRUE, success |-> TRUE, hasEvents |-> TRUE,
            events |-> es] : es \in ServerEvents }

\* CacheFresh with the comparison the wrong way round
CacheFreshInverted(c, t) ==
    c.data # JsNull /\ c.timestamp # 0 /\ (t - c.timestamp) > ttl

\* line 60
CacheFresh(c, t) ==
    c.data # JsNull /\ c.timestamp # 0 /\ (t - c.timestamp) < ttl

\* fetchEvents, lines 58-69: the cached list is returned, or the request is
\* sent and the function waits for the reply
fetchEvents ==
    /\ fpc = "idle"
    /\ IF CacheFresh(cache, now)
       THEN /\ fret' = [how |-> "cache", value |-> cache.data.list]
            /\ UNCHANGED <<fpc, requests>>
       ELSE /\ requests < MaxRequests
            /\ requests' = requests + 1
            /\ fpc' = "awaiting"
            /\ fret' = NoResult
    /\ UNCHANGED <<cache, now, lastOk>>

\* lines 71-84: the reply makes fetchEvents throw
Fails(reply) ==
    \/ reply.rejects
    \/ ~reply.ok
    \/ ~reply.success
    \/ ~reply.hasEvents

\* FetchSettle that empties the cache when the reply is a failure
FetchSettleForgets ==
    /\ fpc = "awaiting"
    /\ \E reply \in Replies :
         IF Fails(reply)
         THEN /\ fret' = [how |-> "throw", value |-> <<>>]
              /\ cache' = [data |-> JsNull, timestamp |-> 0]
              /\ lastOk' = lastOk
         ELSE /\ cache' = [data |-> Data(reply.events), timestamp |-> now]
              /\ lastOk' = reply.events
              /\ fret' = [how |-> "network", value |-> reply.events]
    /\ fpc' = "idle"
    /\ UNCHANGED <<parserVars, metaVars, validVars, callerVars, httpVars,
                   pageVars, now, requests>>

\* fetchEvents, lines 69-96: the reply arrives; the events are stored and
\* returned, or the error is thrown
FetchSettle ==
    /\ fpc = "awaiting"
    /\ \E reply \in Replies :
         IF Fails(reply)
         THEN /\ fret' = [how |-> "throw", value |-> <<>>]
              /\ UNCHANGED <<cache, lastOk>>
         ELSE /\ cache' = [data |-> Data(reply.events), timestamp |-> now]
              /\ lastOk' = reply.events
              /\ fret' = [how |-> "network", value |-> reply.events]
    /\ fpc' = "idle"
    /\ UNCHANGED <<parserVars, metaVars, validVars, callerVars, httpVars,
                   pageVars, now, requests>>

\* Date.now() moves on
Tick ==
    /\ \E d \in {ttl - 1, ttl} : now + d <= MaxNow /\ now' = now + d
    /\ UNCHANGED <<parserVars, metaVars, validVars, callerVars, httpVars,
                   pageVars, cache, fpc, fret, requests, lastOk>>

\* a call of fetchEvents
FetchCall ==
    /\ fetchEvents
    /\ UNCHANGED <<parserVars, metaVars, validVars, callerVars, httpVars,
                   pageVars>>

ServerIdle ==
    /\ html = <<>> /\ pc = "idle" /\ ParserLocals
    /\ MetaIdle /\ ValidIdle /\ CallerIdle /\ HttpIdle

InitCache ==
    /\ ServerIdle
    /\ cpc = "idle" /\ search = "" /\ PageLocals
    /\ now = 1 /\ FetchLocals

NextCache == FetchCall \/ FetchSettle \/ Tick

SpecCache == InitCache /\ [][NextCache]_vars

(***************************************************************************)
(* The client: the query parameters of the page                            *)
(* URLSearchParams is a list of name/value pairs; its text form is the     *)
(* application/x-www-form-urlencoded one.  Letters and digits stand for    *)
(* themselves (the escapes of a Hebrew letter decode to the letter again). *)
(***************************************************************************)
\* str.split(sep), sep one character
RECURSIVE SplitOnFrom(_, _, _, _)
SplitOnFrom(s, sep, start, i) ==
    IF i > Len(s) THEN <<SubSeq(s, start, Len(s))>>
    ELSE IF Char(s, i) = sep
         THEN <<SubSeq(s, start, i - 1)>> \o SplitOnFrom(s, sep, i + 1, i + 1)
         ELSE SplitOnFrom(s, sep, start, i + 1)

splitOn(s, sep) == SplitOnFrom(s, sep, 1, 1)

\* array.join(sep)
RECURSIVE join(_, _)
join(list, sep) ==
    IF list = <<>> THEN ""
    ELSE IF Len(list) = 1 THEN list[1]
    ELSE list[1] \o sep \o join(Tail(list), sep)

\* array.includes(x)
has(list, x) == \E i \in 1..Len(list) : list[i] = x

\* the escape of one character
EncodeChar(c) ==
    CASE c = " " -> "+"
      [] c = "," -> "%2C"
      [] c = "&" -> "%26"
      [] c = "=" -> "%3D"
      [] c = "+" -> "%2B"
      [] c = "%" -> "%25"
      [] OTHER   -> c

RECURSIVE formEncode(_)
formEncode(s) ==
    IF s = "" THEN ""
    ELSE EncodeChar(Char(s, 1)) \o formEncode(SubSeq(s, 2, Len(s)))

\* the character an escape %XX stands for; an escape that is none stays
DecodeEscape(e) ==
    CASE e = "%2C" -> ","
      [] e = "%26" -> "&"
      [] e = "%3D" -> "="
      [] e = "%2B" -> "+"
      [] e = "%25" -> "%"
      [] e = "%20" -> " "
      [] OTHER     -> e

RECURSIVE formDecode(_)
formDecode(s) ==
    IF s = "" THEN ""
    ELSE IF Char(s, 1) = "+" THEN " " \o formDecode(SubSeq(s, 2, Len(s)))
    ELSE IF Char(s, 1) = "%" /\ Len(s) >= 3
         THEN DecodeEscape(SubSeq(s, 1, 3)) \o formDecode(SubSeq(s, 4, Len(s)))
    ELSE Char(s, 1) \o formDecode(SubSeq(s, 2, Len(s)))

\* the position of the first c in s, 0 without one
IndexOf(s, c) ==
    IF \E i \in 1..Len(s) : Char(s, i) = c
    THEN CHOOSE i \in 1..Len(s) :
             Char(s, i) = c /\ \A j \in 1..(i - 1) : Char(s, j) # c
    ELSE 0

\* one name=value piece of a query
ParsePair(piece) ==
    LET eq == IndexOf(piece, "=")
    IN  IF eq = 0 THEN [name |-> formDecode(piece), value |-> ""]
        ELSE [name  |-> formDecode(SubSeq(piece, 1, eq - 1)),
              value |-> formDecode(SubSeq(piece, eq + 1, Len(piece)))]

RECURSIVE ParsePieces(_)
ParsePieces(pieces) ==
    IF pieces = <<>> THEN <<>>
    ELSE (IF pieces[1] = "" THEN <<>> ELSE <<ParsePair(pieces[1])>>)
         \o ParsePieces(Tail(pieces))

\* new URLSearchParams(window.location.search)
URLSearchParams(query) ==
    LET q == IF Char(query, 1) = "?" THEN SubSeq(query, 2, Len(query)) ELSE query
    IN  ParsePieces(splitOn(q, "&"))

\* params.get(name): the first value of that name; null is written as the
\* empty string, which the callers treat alike
get(params, name) ==
    IF \E i \in 1..Len(params) : params[i].name = name
    THEN params[CHOOSE i \in 1..Len(params) :
                    /\ params[i].name = name
                    /\ \A j \in 1..(i - 1) : params[j].name # name].value
    ELSE ""

\* params.delete(name)
RECURSIVE delete(_, _)
delete(params, name) ==
    IF params = <<>> THEN <<>>
    ELSE (IF params[1].name = name THEN <<>> ELSE <<params[1]>>)
         \o delete(Tail(params), name)

\* params.set(name, value): the first pair of that name takes the value and
\* the others go; without one the pair is appended
set(params, name, value) ==
    IF \E i \in 1..Len(params) : params[i].name = name
    THEN LET first == CHOOSE i \in 1..Len(params) :
                          /\ params[i].name = name
                          /\ \A j \in 1..(i - 1) : params[j].name # name
         IN  SubSeq(params, 1, first - 1)
             \o <<[name |-> name, value |-> value]>>
             \o delete(SubSeq(params, first + 1, Len(params)), name)
    ELSE Append(params, [name |-> name, value |-> value])

\* params.toString()
RECURSIVE toString(_)
toString(params) ==
    IF params = <<>> THEN ""
    ELSE formEncode(params[1].name) \o "=" \o formEncode(params[1].value)
         \o (IF Len(params) > 1 THEN "&" ELSE "")
         \o toString(Tail(params))

\* window.location.search after history.replaceState(null, '', path?query):
\* an empty query gives an empty search
SearchOf(query) == IF query = "" THEN "" ELSE "?" \o query

(***************************************************************************)
(* The client: filters and event cards                                     *)
(***************************************************************************)
\* the code units of the characters, in ascending order
Alphabet == " ,0123456789ABCDEFGHIJKLMNOPQRSTUVWXYZabcdefghijklmnopqrstuvwxyz"

\* a < b as Array.prototype.sort compares strings
RECURSIVE Before(_, _)
Before(a, b) ==
    IF b = "" THEN FALSE
    ELSE IF a = "" THEN TRUE
    ELSE IF Char(a, 1) = Char(b, 1)
         THEN Before(SubSeq(a, 2, Len(a)), SubSeq(b, 2, Len(b)))
    ELSE IndexOf(Alphabet, Char(a, 1)) < IndexOf(Alphabet, Char(b, 1))

\* Array.from(new Set(...)).sort()
RECURSIVE sort(_)
sort(S) ==
    IF S = {} THEN <<>>
    ELSE LET least == CHOOSE x \in S : \A y \in S \ {x} : Before(x, y)
         IN  <<least>> \o sort(S \ {least})

\* the category checkboxes of the page, as its markup has them
CategoryInputs ==
    << [value |-> TLMYDYM, checked |-> FALSE],
       [value |-> TRWM_M3SY, checked |-> FALSE] >>

\* lines 31-32
BranchParam(query) ==
    LET b == get(URLSearchParams(query), "branch")
    IN  IF b # "" THEN splitOn(b, ",") ELSE <<>>

\* line 33
CategoryParam(query) ==
    LET c == get(URLSearchParams(query), "category")
    IN  IF c # "" THEN splitOn(c, ",") ELSE <<TLMYDYM, TRWM_M3SY>>

\* renderFilters, lines 110-122: one checkbox for each branch of the events
BranchInputs(evs, selectedBranches) ==
    LET branches == sort({evs[i].branch : i \in 1..Len(evs)} \ {""})
    IN  [i \in 1..Len(branches) |->
            [value |-> branches[i], checked |-> has(selectedBranches, branches[i])]]

\* renderFilters, lines 125-128
SetChecked(inputs, selected) ==
    [i \in 1..Len(inputs) |->
        [value |-> inputs[i].value, checked |-> has(selected, inputs[i].value)]]

\* querySelectorAll('input[type="checkbox"]:checked') mapped to the values
CheckedValues(inputs) ==
    LET on == SelectSeq(inputs, LAMBDA cb : cb.checked)
    IN  [i \in 1..Len(on) |-> on[i].value]

\* renderEvents, lines 189-266: the cards, the students' group first; none
\* when the filters leave nothing
Cards(evs, branches, categories) ==
    LET byBranch == IF Len(branches) > 0
                    THEN SelectSeq(evs, LAMBDA e : has(branches, e.branch))
                    ELSE evs
        filtered == IF Len(categories) > 0
                    THEN SelectSeq(byBranch, LAMBDA e : has(categories, e.eventType))
                    ELSE byBranch
    IN  IF filtered = <<>> THEN <<>>
        ELSE SelectSeq(filtered, LAMBDA e : e.eventType = TLMYDYM)
             \o SelectSeq(filtered, LAMBDA e : e.eventType = TRWM_M3SY)

\* lines 24-29: the page is ready and fetchEvents is called
DOMContentLoaded ==
    /\ cpc = "idle"
    /\ fetchEvents
    /\ cpc' = "loading"
    /\ UNCHANGED <<parserVars, metaVars, validVars, callerVars, httpVars,
                   search, branchBoxes, categoryBoxes, sailorEvents, shown>>

\* lines 29-36: the events have arrived; filters and cards are rendered
\* from the query parameters
LoadThen ==
    /\ cpc = "loading" /\ fpc = "idle"
    /\ fret.how \in {"network", "cache"}
    /\ branchBoxes' = BranchInputs(fret.value, BranchParam(search))
    /\ categoryBoxes' = SetChecked(categoryBoxes, CategoryParam(search))
    /\ sailorEvents' = fret.value
    /\ shown' = Cards(fret.value, BranchParam(search), CategoryParam(search))
    /\ cpc' = "ready"
    /\ UNCHANGED <<parserVars, metaVars, validVars, callerVars, httpVars,
                   search, fetchVars>>

\* lines 37-51: fetchEvents threw; the error panel is shown
LoadCatch ==
    /\ cpc = "loading" /\ fpc = "idle"
    /\ fret.how = "throw"
    /\ cpc' = "failed"
    /\ UNCHANGED <<parserVars, metaVars, validVars, callerVars, httpVars,
                   search, branchBoxes, categoryBoxes, sailorEvents, shown,
                   fetchVars>>

\* the checkbox k of the list changes its state
Toggle(inputs, k) ==
    [inputs EXCEPT ![k] = [value |-> inputs[k].value, checked |-> ~inputs[k].checked]]

\* updateFiltersAndRender, lines 143-173, on the checkboxes as they now are
updateFiltersAndRender(branchInputs, categoryInputs) ==
    LET selectedBranches   == CheckedValues(branchInputs)
        selectedCategories == CheckedValues(categoryInputs)
        params == URLSearchParams(search)
        p1 == IF Len(selectedBranches) > 0
              THEN set(params, "branch", join(selectedBranches, ","))
              ELSE delete(params, "branch")
        p2 == IF Len(selectedCategories) > 0
              THEN set(p1, "category", join(selectedCategories, ","))
              ELSE delete(p1, "category")
    IN  /\ search' = SearchOf(toString(p2))
        /\ shown' = Cards(sailorEvents, selectedBranches, selectedCategories)
        /\ sailorEvents' = sailorEvents

\* the change listener of lines 133-137: a checkbox is clicked and
\* updateFiltersAndRender runs
Change ==
    /\ cpc = "ready"
    /\ \/ \E k \in 1..Len(branchBoxes) :
            /\ branchBoxes' = Toggle(branchBoxes, k)
            /\ categoryBoxes' = categoryBoxes
            /\ updateFiltersAndRender(branchBoxes', categoryBoxes')
       \/ \E k \in 1..Len(categoryBoxes) :
            /\ categoryBoxes' = Toggle(categoryBoxes, k)
            /\ branchBoxes' = branchBoxes
            /\ updateFiltersAndRender(branchBoxes', categoryBoxes')
    /\ UNCHANGED <<parserVars, metaVars, validVars, callerVars, httpVars,
                   cpc, fetchVars>>

\* location.reload() (line 43, or the browser's own): the document and the
\* script start afresh at the same address
Reload ==
    /\ cpc \in {"ready", "failed"}
    /\ cpc' = "idle"
    /\ branchBoxes' = <<>> /\ categoryBoxes' = CategoryInputs
    /\ sailorEvents' = <<>> /\ shown' = <<>>
    /\ cache' = [data |-> JsNull, timestamp |-> 0]
    /\ fpc' = "idle" /\ fret' = NoResult /\ requests' = 0 /\ lastOk' = <<>>
    /\ UNCHANGED <<parserVars, metaVars, validVars, callerVars, httpVars,
                   search, now>>

\* the addresses the page is opened with
Searches ==
    { "", "?branch=haifa", "?category=TLMYDYM",
      "?x=1&category=TRWM+M3SY%2CTLMYDYM&branch=tel+aviv%2Chaifa" }

InitPage ==
    /\ ServerIdle
    /\ cpc = "idle" /\ search \in Searches
    /\ branchBoxes = <<>> /\ categoryBoxes = CategoryInputs
    /\ sailorEvents = <<>> /\ shown = <<>>
    /\ now = 1 /\ FetchLocals

NextPage ==
    DOMContentLoaded \/ FetchSettle \/ LoadThen \/ LoadCatch \/ Change \/ Reload

SpecPage == InitPage /\ [][NextPage]_vars

(***************************************************************************)
(* Properties.  The candidate blocks and their titles are restated here    *)
(* from the two structural patterns, apart from the selector engine.       *)
(***************************************************************************)
HasClass(doc, n, c) == \E i \in 1..Len(doc[n].cls) : doc[n].cls[i] = c

IsCandidate(doc, n) ==
    \/ /\ HasClass(doc, n, "yachts-box")
       /\ \E a \in 1..(n - 1) :
            /\ HasClass(doc, a, "single-yachts-box-sails")
            /\ \A j \in (a + 1)..n : doc[j].depth > doc[a].depth
    \/ /\ HasClass(doc, n, "siingle-yachts-box")
       /\ HasClass(doc, n, "single-yachts-box-sails")

Candidates(doc) == {n \in 1..Len(doc) : IsCandidate(doc, n)}

\* the trimmed text of the block's first h2, '' without one
TitleOf(doc, n) ==
    LET hs == {m \in Descendants(doc, n) : doc[m].tag = "h2"}
    IN  IF hs = {} THEN ""
        ELSE trim(textContent(doc, CHOOSE m \in hs : \A j \in hs : m <= j))

Returned == pc = "returned"

\* C1: when parseSailingEvents has returned, the record of a candidate block
\* is in the output if and only if the block's title is non-empty; a
\* title-less candidate neither raises nor hides the candidates after it.
C1_TitledIffIncluded ==
    Returned =>
        \A n \in Candidates(html) :
            (\E k \in 1..Len(ret) : ret[k] = parseEventBox(html, n))
                <=> TitleOf(html, n) # ""

\* a title-less candidate was dropped and a later candidate was kept
C1_Witness ==
    /\ Returned
    /\ \E n, m \in Candidates(html) :
         /\ n < m
         /\ TitleOf(html, n) = ""
         /\ TitleOf(html, m) # ""
         /\ \E k \in 1..Len(ret) : ret[k] = parseEventBox(html, m)

\* C2: the output is the records of the titled candidates in document order,
\* and a document without candidate blocks yields the empty sequence.
C2_DocumentOrder ==
    Returned =>
        LET kept == Ascending({n \in Candidates(html) : TitleOf(html, n) # ""})
        IN  /\ ret = [k \in 1..Len(kept) |-> parseEventBox(html, kept[k])]
            /\ Candidates(html) = {} => ret = <<>>

\* two candidates with different titles were returned, the earlier one first
C2_Witness ==
    /\ Returned
    /\ \E n, m \in Candidates(html) :
         /\ n < m
         /\ Len(ret) = 2
         /\ ret[1] = parseEventBox(html, n)
         /\ ret[2] = parseEventBox(html, m)
         /\ ret[1].title # ret[2].title

\* the records of the candidate blocks, as the output holds them
OutputOf(n) == parseEventBox(html, n)

Titled == {n \in Candidates(html) : TitleOf(html, n) # ""}

\* t occurs in s
Occurs(s, t) ==
    \E i \in 0..(Len(s) - Len(t)) :
        \A k \in 1..Len(t) : Char(s, i + k) = Char(t, k)

\* C5: every output record has eventType TRWM_M3SY when its title contains
\* TRWM and TLMYDYM otherwise, and records with equal titles have equal
\* eventType whatever their other fields hold.
C5_EventTypeFromTitle ==
    Returned =>
        /\ \A k \in 1..Len(ret) :
             ret[k].eventType =
                 IF Occurs(ret[k].title, "TRWM") THEN "TRWM M3SY" ELSE "TLMYDYM"
        /\ \A j, k \in 1..Len(ret) :
             ret[j].title = ret[k].title => ret[j].eventType = ret[k].eventType

\* two records share a title that holds TRWM after its start, differ in
\* another field, and both have the type TRWM_M3SY
C5_Witness ==
    /\ Returned
    /\ Len(ret) = 2
    /\ ret[1].title = ret[2].title
    /\ ret[1].price # ret[2].price
    /\ ret[1].eventType = "TRWM M3SY"
    /\ ret[2].eventType = "TRWM M3SY"
    /\ SubSeq(ret[1].title, 1, 4) # "TRWM"

\* no element of block n matches the tag and the class
Lacks(n, tag, class) ==
    ~ \E m \in Descendants(html, n) :
        /\ tag = "" \/ html[m].tag = tag
        /\ class = "" \/ HasClass(html, m, class)

\* C8: in the record of every candidate block, each field whose element is
\* absent from the block is the empty string, whichever other elements are
\* present; a block holding a title element only yields a record with all
\* eleven other fields empty and eventType computed from the title.
C8_AbsentIsEmpty ==
    Returned =>
        \A k \in 1..Len(ret) : \E n \in Titled :
            /\ ret[k] = OutputOf(n)
            /\ \A m \in Titled : OutputOf(m) = ret[k] =>
                 /\ Lacks(m, "", "sail-time-date-label") =>
                      /\ ret[k].date = "" /\ ret[k].startTime = ""
                      /\ ret[k].endTime = "" /\ ret[k].dayOfWeek = ""
                 /\ Lacks(m, "span", "text-truncate") => ret[k].description = ""
                 /\ Lacks(m, "ul", "meta-list-sail") =>
                      ret[k].boat = "" /\ ret[k].branch = "" /\ ret[k].pier = ""
                 /\ Lacks(m, "a", "btn-more-detail") => ret[k].moreUrl = ""
                 /\ Lacks(m, "a", "btn-cart") => ret[k].orderUrl = ""
                 /\ Lacks(m, "", "sail-price") => ret[k].price = ""
                 /\ ret[k].eventType \in {"TRWM M3SY", "TLMYDYM"}

\* a fully populated block and a block with a title element only gave two
\* records, the second with every other field empty
C8_Witness ==
    /\ Returned
    /\ Len(ret) = 2
    /\ \E n \in Titled :
         /\ Descendants(html, n) = {n + 1}
         /\ html[n + 1].tag = "h2"
         /\ ret[2] = OutputOf(n)
         /\ ret[2].title # ""
         /\ \A f \in DOMAIN ret[2] \ {"title", "eventType"} : ret[2][f] = ""
         /\ ret[2].eventType = "TRWM M3SY"
    /\ \A f \in DOMAIN ret[1] : ret[1][f] # ""

\* the block of the k-th output record
BlockOf(k) == Ascending(Titled)[k]

\* the block's date label, 0 without one
LabelOf(n) ==
    LET ls == {m \in Descendants(html, n) : HasClass(html, m, "sail-time-date-label")}
    IN  IF ls = {} THEN 0 ELSE CHOOSE m \in ls : \A j \in ls : m <= j

\* the label's text, trimmed and with whitespace runs collapsed
Normalised(n) == collapseWs(trim(textContent(html, LabelOf(n))))

\* s with every digit replaced by 9
RECURSIVE Picture(_)
Picture(s) ==
    IF s = "" THEN ""
    ELSE (IF IsDigit(SubSeq(s, 1, 1)) THEN "9" ELSE SubSeq(s, 1, 1))
         \o Picture(SubSeq(s, 2, Len(s)))

\* the form DD/MM/YYYY HH:MM - HH:MM, the hyphen with or without a space on
\* either side
Forms ==
    { "99/99/9999 99:99-99:99", "99/99/9999 99:99 -99:99",
      "99/99/9999 99:99- 99:99", "99/99/9999 99:99 - 99:99" }

\* the piece of s of length len at position i has one of the forms
FormAt(s, i, len) ==
    i + len - 1 <= Len(s) /\ Picture(SubSeq(s, i, i + len - 1)) \in Forms

Fields(r) == [dateStr |-> r.date, startTime |-> r.startTime, endTime |-> r.endTime]

\* the date and the two times of a piece of one of the forms
Pieces(t) ==
    [dateStr |-> SubSeq(t, 1, 10), startTime |-> SubSeq(t, 12, 16),
     endTime |-> SubSeq(t, Len(t) - 4, Len(t))]

AllEmpty == [dateStr |-> "", startTime |-> "", endTime |-> ""]

\* C3 as stated: the three fields are the captured pieces when the whole
\* normalised label text has the form, and are all empty when the label is
\* absent or its text is anything else, text around the pattern included.
C3_WholeTextOnly ==
    Returned =>
        \A k \in 1..Len(ret) :
            LET n == BlockOf(k)
            IN  Fields(ret[k]) =
                    IF LabelOf(n) # 0 /\ Picture(Normalised(n)) \in Forms
                    THEN Pieces(Normalised(n))
                    ELSE AllEmpty

\* C3 amended: the three fields are the pieces of the leftmost part of the
\* normalised label text that has the form, and are all empty when the
\* label is absent or no part of its text has the form.
C3_LeftmostPart ==
    Returned =>
        \A k \in 1..Len(ret) :
            LET n   == BlockOf(k)
                s   == Normalised(n)
                at  == {i \in 1..Len(s) : \E len \in 22..24 : FormAt(s, i, len)}
            IN  Fields(ret[k]) =
                    IF LabelOf(n) = 0 \/ at = {} THEN AllEmpty
                    ELSE LET i   == CHOOSE x \in at : \A y \in at : x <= y
                             len == CHOOSE l \in 22..24 : FormAt(s, i, l)
                         IN  Pieces(SubSeq(s, i, i + len - 1))

\* a label with text before and after a conforming part gave that part's
\* date and times
C3_Witness ==
    /\ Returned
    /\ Len(ret) = 1
    /\ LabelOf(BlockOf(1)) # 0
    /\ Normalised(BlockOf(1)) = "x27/10/2025 14:00 - 16:000"
    /\ Fields(ret[1]) =
         [dateStr |-> "27/10/2025", startTime |-> "14:00", endTime |-> "16:00"]

\* the number written by a string of digits
RECURSIVE Number(_)
Number(s) ==
    IF s = "" THEN 0
    ELSE 10 * Number(SubSeq(s, 1, Len(s) - 1))
         + (CHOOSE v \in 0..9 : Digit(v) = SubSeq(s, Len(s), Len(s)))

MonthLength(m, y) ==
    IF m = 2 THEN (IF (y % 4 = 0 /\ y % 100 # 0) \/ y % 400 = 0 THEN 29 ELSE 28)
    ELSE IF m \in {4, 6, 9, 11} THEN 30 ELSE 31

IsCalendarDate(d, m, y) == m \in 1..12 /\ d \in 1..MonthLength(m, y)

\* the weekday (Sunday = 0) of day d of month m of year y, by Zeller's
\* congruence for the Gregorian calendar
Weekday(d, m, y) ==
    LET mm == IF m < 3 THEN m + 12 ELSE m
        yy == IF m < 3 THEN y - 1 ELSE y
        h  == (d + ((13 * (mm + 1)) \div 5) + (yy % 100) + ((yy % 100) \div 4)
                 + ((yy \div 100) \div 4) + 5 * (yy \div 100)) % 7
    IN  (h + 6) % 7

DayTable == <<"A'", "B'", "G'", "D'", "H'", "W'", "S'">>

DayClaim(r) ==
    IF r.date = "" THEN r.dayOfWeek = ""
    ELSE LET d == Number(SubSeq(r.date, 1, 2))
             m == Number(SubSeq(r.date, 4, 5))
             y == Number(SubSeq(r.date, 7, 10))
         IN  IsCalendarDate(d, m, y) => r.dayOfWeek = DayTable[Weekday(d, m, y) + 1]

\* C4: in every output record dayOfWeek is '' when date is '' and otherwise
\* the table's symbol for the weekday of the calendar date that date writes,
\* for every day, month and four-digit year.
C4_WeekdayOfDate ==
    Returned => \A k \in 1..Len(ret) : DayClaim(ret[k])

\* the same for the years from 0100 on, where the Date constructor takes the
\* year as written
C4_FromYear100 ==
    Returned =>
        \A k \in 1..Len(ret) :
            (ret[k].date # "" => Number(SubSeq(ret[k].date, 7, 10)) >= 100)
                => DayClaim(ret[k])

\* the text of the item's label span, '' without one
LabelText(li) ==
    LET ls == {m \in Descendants(html, li) :
                 html[m].tag = "span" /\ HasClass(html, m, "messages")}
    IN  IF ls = {} THEN ""
        ELSE trim(textContent(html, CHOOSE m \in ls : \A j \in ls : m <= j))

\* the forEach callback takes its turn on item mItems[mIdx]
ItemTurn == mpc = "forEach" /\ mIdx' = mIdx + 1

BranchOnly ==
    /\ meta'.branch = ItemValue(html, mItems[mIdx])
    /\ meta'.boat = meta.boat
    /\ meta'.pier = meta.pier

NoKeyword(label) ==
    ~Occurs(label, "KLY HSYYT") /\ ~Occurs(label, "SNYP") /\ ~Occurs(label, "RCYP")

\* C6 as stated: a turn on an item whose label contains SNYP assigns the
\* item's value to branch and leaves boat and pier as they were; a turn on
\* an item whose label contains none of the three keywords changes nothing.
C6_BranchForEverySnyp ==
    [][ItemTurn =>
          LET label == LabelText(mItems[mIdx])
          IN  /\ Occurs(label, "SNYP") => BranchOnly
              /\ NoKeyword(label) => meta' = meta]_vars

\* C6 amended: the same for an item whose label contains SNYP and does not
\* contain KLY HSYYT, the keyword tested before it.
C6_BranchUnlessBoat ==
    [][ItemTurn =>
          LET label == LabelText(mItems[mIdx])
          IN  /\ (Occurs(label, "SNYP") /\ ~Occurs(label, "KLY HSYYT"))
                   => BranchOnly
              /\ NoKeyword(label) => meta' = meta]_vars

\* after a boat item and a pier item, an item labelled SNYP and RCYP has set
\* branch and left boat and pier
C6_Witness ==
    /\ mpc = "forEach"
    /\ mIdx = 4
    /\ LabelText(mItems[3]) = "SNYP/RCYP"
    /\ meta = [boat |-> "v1", branch |-> "v3", pier |-> "v2"]

Markers ==
    {"single-yachts-box-sails", "yachts-box", "siingle-yachts-box", "HPLGWT", "sailing"}

\* C7: validateSailingContent returns, and returns true if and only if the
\* text contains at least one of the five markers.
C7_TrueIffMarker ==
    valid # "none" =>
        /\ valid \in {"true", "false"}
        /\ valid = "true" <=> \E mk \in Markers : Occurs(markup, mk)

\* true was returned for a text with the misspelled class marker and without
\* the primary class marker or a keyword
C7_Witness ==
    /\ valid = "true"
    /\ Occurs(markup, "siingle-yachts-box")
    /\ ~Occurs(markup, "single-yachts-box-sails")
    /\ ~Occurs(markup, "HPLGWT")
    /\ ~Occurs(markup, "sailing")

\* C9: any two calls of parseSailingEvents on the same markup return the
\* same sequence of records, whatever calls were made before or between.
C9_SameMarkupSameRecords ==
    /\ \A i, j \in 1..Len(log) :
         log[i].doc = log[j].doc => log[i].out = log[j].out
    /\ Returned => \A i \in 1..Len(log) : log[i].doc = html => log[i].out = ret

\* a document with two records was parsed, then another document, then the
\* first again
C9_Witness ==
    /\ Len(log) = 3
    /\ log[1].doc = log[3].doc
    /\ log[2].doc # log[1].doc
    /\ Len(log[1].out) = 2
    /\ Len(log[2].out) >= 1

\* a text a person can read: a string that is neither empty nor undefined
Readable(x) == x # "" /\ x # "<undefined>"

\* C10: every answer to a request other than OPTIONS has status 200 when
\* its envelope has success = true and 500 when it has success = false, and
\* an envelope with success = false holds a message, an error detail and a
\* timestamp.
C10_StatusAndFailureEnvelope ==
    (hpc = "responded" /\ req.method # "OPTIONS") =>
        /\ body.success = TRUE => status = 200
        /\ body.success = FALSE =>
             /\ status = 500
             /\ {"message", "error", "timestamp"} \subseteq DOMAIN body
             /\ Readable(body.message)
             /\ Readable(body.error)
             /\ Readable(body.timestamp)

\* the remote provider failed with a reply of the service and the request
\* was answered 500 with the reply's status in the error detail
C10_Witness ==
    /\ hpc = "responded"
    /\ req.method = "GET"
    /\ status = 500
    /\ body.success = FALSE
    /\ "provider" \in DOMAIN body
    /\ body.provider = "ScrapingBee"
    /\ body.error = "Status: 500, Data: {\"message\":\"quota\"}"

\* C11: when the transport returned text for which validateSailingContent
\* is false, parseSailingEvents is not called (it stays idle, with no
\* document and no result), the provider's list is empty, and the answer is
\* the success envelope: success = true, events empty, contentFound = false,
\* status 200.
C11_InvalidContentIsEmptySuccess ==
    valid = "false" =>
        /\ pc = "idle" /\ html = <<>> /\ ParserLocals
        /\ evts = <<>>
        /\ hpc \in {"serviceReturn", "respond", "responded"}
        /\ hpc \in {"respond", "responded"} =>
             /\ body.success = TRUE
             /\ body.events = <<>>
             /\ body.contentFound = FALSE
        /\ hpc = "responded" => status = 200

\* the static file held an error page without any marker, and the request
\* was answered
C11_Witness ==
    /\ hpc = "responded"
    /\ valid = "false"
    /\ provider = "StaticHTML"
    /\ markup = "<p>404 not found</p>"
    /\ status = 200

\* the headings inside the block, and the one that gives the block's title
\* (0 without one)
HeadingsIn(doc, n) == {m \in Descendants(doc, n) : doc[m].tag = "h2"}

TitleNode(doc, n) ==
    IF HeadingsIn(doc, n) = {} THEN 0
    ELSE CHOOSE m \in HeadingsIn(doc, n) : \A j \in HeadingsIn(doc, n) : m <= j

\* C13: no heading supplies the title of two output records, in any
\* document, one where a block of the fallback pattern holds a block of the
\* primary pattern included, and so the output has no more records than
\* there are headings inside candidate blocks.
C13_OneRecordPerHeading ==
    Returned =>
        /\ \A n, m \in Titled : n # m => TitleNode(html, n) # TitleNode(html, m)
        /\ Len(ret) <= Cardinality(UNION {HeadingsIn(html, n) : n \in Candidates(html)})

\* C13, apart from nesting: candidate blocks none of which lies inside
\* another give one record per heading
C13_Disjoint ==
    (Returned /\ \A n, m \in Candidates(html) : m \notin Descendants(html, n)) =>
        /\ \A n, m \in Titled : n # m => TitleNode(html, n) # TitleNode(html, m)
        /\ Len(ret) <= Cardinality(UNION {HeadingsIn(html, n) : n \in Candidates(html)})

\* C14: over any sequence of calls of fetchEvents, a request is sent only
\* when the cache is empty or its timestamp is at least ttl old; a call
\* served from the cache returns the events of the most recent accepted
\* reply; and a failed fetch leaves cache.data and cache.timestamp as they
\* were.
C14_CacheDiscipline ==
    /\ [](fret.how = "cache" => fret.value = lastOk)
    /\ [][ /\ requests' # requests =>
                (cache.data = JsNull \/ now - cache.timestamp >= ttl)
           /\ (fpc = "awaiting" /\ fret'.how = "throw") => cache' = cache
         ]_vars

\* two requests were sent, the later reply was accepted with events, and a
\* call after it was served from the cache
C14_Witness ==
    /\ requests = 2
    /\ fret.how = "cache"
    /\ fret.value # <<>>
    /\ cache.data = Data(fret.value)
    /\ now - cache.timestamp = ttl - 1

Range(list) == {list[i] : i \in 1..Len(list)}

\* what loading the page from the address yields, the events being the same
ReloadedBranches == Range(CheckedValues(BranchInputs(sailorEvents, BranchParam(search))))

ReloadedCategories == Range(CheckedValues(SetChecked(categoryBoxes, CategoryParam(search))))

ReloadedCards == Range(Cards(sailorEvents, BranchParam(search), CategoryParam(search)))

\* C12: whenever the page is ready, after any checkbox changes, loading the
\* page from its address yields the checked branches, the checked
\* categories and the displayed events the page has now.
C12_AddressKeepsFilters ==
    cpc = "ready" =>
        /\ ReloadedBranches = Range(CheckedValues(branchBoxes))
        /\ ReloadedCategories = Range(CheckedValues(categoryBoxes))
        /\ ReloadedCards = Range(shown)

\* C12, where it holds: with a category checked and no comma in the value
\* of a checked branch, the address gives the page back
C12_WithCategoryAndPlainBranches ==
    ( /\ cpc = "ready"
      /\ CheckedValues(categoryBoxes) # <<>>
      /\ \A b \in Range(CheckedValues(branchBoxes)) : IndexOf(b, ",") = 0 ) =>
        /\ ReloadedBranches = Range(CheckedValues(branchBoxes))
        /\ ReloadedCategories = Range(CheckedValues(categoryBoxes))
        /\ ReloadedCards = Range(shown)

====
